---- MODULE Spec2Model ----
(***************************************************************************)
(* A model of the analytics scripts of tor-nodes (src/scripts).            *)
(*                                                                         *)
(*   churn_rate.py       collect_churn_data, generate_churn_chart, main    *)
(*   network_chart.py    collect_data, generate_chart, main                *)
(*   geolocation_map.py  load_world_map, generate_map, main                *)
(*   combined_chart.py   combine_charts, main                              *)
(*   utils/utils.py      count_nodes_in_file                               *)
(*                                                                         *)
(* One behaviour is one run of one script.  The history archive is an      *)
(* input: the set of date directories is chosen when the script globs it,  *)
(* and the contents of a directory's role files are chosen when the        *)
(* directory is read, unless the run starts from an archive fixed in       *)
(* advance (variable fixture).                                             *)
(***************************************************************************)
EXTENDS Integers, Sequences, FiniteSets, TLC

(***************************************************************************)
(* Bounds of the model.                                                    *)
(***************************************************************************)
\* the largest number of date directories in the archive
MaxDirs == 2
\* the largest number of lines in the three role files of one directory
MaxLines == 1
\* the largest number of lines in a role file of an archive fixed in advance
MaxFixtureLines == 2

\* node identifiers (IP addresses) found in the role files
Ids == {"A", "B"}
\* the identifiers of the archives fixed in advance
FixtureIds == {"A", "B", "C"}
\* a line holding white space only: line.strip() is the empty string
Blank == ""
\* the names of the two grouping directory levels, as <<first, second>>
Groupings == {<<2023, 12>>, <<2024, 1>>}
\* names matching ????-??-??, as <<year, month, day>>
DateNames ==
    {<<2024, 1, 1>>, <<2024, 1, 10>>, <<2024, 2, 29>>, <<2024, 13, 40>>}
\* a role file that does not exist
Missing == [exists |-> FALSE, lines |-> <<>>]

(***************************************************************************)
(* Dates: datetime.strptime(date_str, "%Y-%m-%d") and date arithmetic.     *)
(***************************************************************************)
Roles == <<"relay", "exit", "guard">>

RoleSet == {Roles[i] : i \in 1..Len(Roles)}

IsLeap(y) == (y % 4 = 0) /\ ((y % 100 # 0) \/ (y % 400 = 0))

DaysInMonth(y, m) ==
    IF m = 2 THEN (IF IsLeap(y) THEN 29 ELSE 28)
    ELSE IF m \in {4, 6, 9, 11} THEN 30 ELSE 31

\* a parser that takes any month and day
ValidDate_AnyMonthDay(name) == name[1] >= 1 /\ name[1] <= 9999

\* strptime raises ValueError unless the name is a calendar date
ValidDate(name) ==
    /\ name[1] >= 1 /\ name[1] <= 9999
    /\ name[2] >= 1 /\ name[2] <= 12
    /\ name[3] >= 1 /\ name[3] <= DaysInMonth(name[1], name[2])

RECURSIVE DaysBeforeMonth(_, _)
DaysBeforeMonth(y, m) ==
    IF m = 1 THEN 0 ELSE DaysBeforeMonth(y, m - 1) + DaysInMonth(y, m - 1)

\* a datetime is modelled by its proleptic Gregorian ordinal (day 1 = 0001-01-01):
\* comparison and (a - b).days are comparison and subtraction of ordinals
ParseDate(name) ==
    LET y == name[1] - 1
    IN  y * 365 + (y \div 4) - (y \div 100) + (y \div 400)
        + DaysBeforeMonth(name[1], name[2]) + name[3]

(***************************************************************************)
(* Paths: HISTORY_DIR.glob("*/*/????-??-??") and sorted().                 *)
(***************************************************************************)
Paths == {<<g[1], g[2], n>> : g \in Groupings, n \in DateNames}

Name(path) == path[3]

LexLess(a, b) ==
    \E i \in 1..Len(a) :
        /\ a[i] < b[i]
        /\ \A j \in 1..(i - 1) : a[j] = b[j]

\* pathlib orders paths by their parts; equal-width digit strings order as numbers
PathLess(p, q) ==
    LexLess(<<p[1], p[2]>> \o Name(p), <<q[1], q[2]>> \o Name(q))

RECURSIVE SortPaths(_)
SortPaths(S) ==
    IF S = {} THEN <<>>
    ELSE LET p == CHOOSE x \in S : \A z \in S \ {x} : PathLess(x, z)
         IN  <<p>> \o SortPaths(S \ {p})

\* the dates in descending order
RECURSIVE SortDates_Descending(_)
SortDates_Descending(S) ==
    IF S = {} THEN <<>>
    ELSE LET d == CHOOSE x \in S : \A z \in S : x >= z
         IN  <<d>> \o SortDates_Descending(S \ {d})

\* sorted(date_nodes.keys())
RECURSIVE SortDates(_)
SortDates(S) ==
    IF S = {} THEN <<>>
    ELSE LET d == CHOOSE x \in S : \A z \in S : x <= z
         IN  <<d>> \o SortDates(S \ {d})

(***************************************************************************)
(* Role files: newline-delimited identifiers.                              *)
(***************************************************************************)
BoundedSeq(S, n) == UNION {[1..k -> S] : k \in 0..n}

\* a line as the file iterator yields it: its text and the line terminator
Lines(ids) == {[text |-> t, eol |-> "\n"] : t \in ids \cup {Blank}}

\* line.strip()
Strip(line) == line.text

FileContents(ids) ==
    {Missing} \cup {[exists |-> TRUE, lines |-> s] : s \in BoundedSeq(Lines(ids), MaxLines)}

FileLen(file) == Len(file.lines)

TotalLines(c) == FileLen(c["relay"]) + FileLen(c["exit"]) + FileLen(c["guard"])

\* what the three role files of one date directory may hold
DirContents ==
    {c \in [RoleSet -> FileContents(Ids)] : TotalLines(c) <= MaxLines}

(***************************************************************************)
(* Dictionaries.  node_first_seen is iterated (lifespans), so it keeps its *)
(* insertion order: a sequence of <<ip, date>> pairs.  The others are only *)
(* indexed or sorted and are functions.                                    *)
(***************************************************************************)
EmptyDict == [k \in {} |-> 0]

DictSet(d, k, v) == [x \in (DOMAIN d) \cup {k} |-> IF x = k THEN v ELSE d[x]]

Keys(items) == {items[i][1] : i \in 1..Len(items)}

(***************************************************************************)
(* collect_churn_data, lines 46-82: reading one date directory.            *)
(***************************************************************************)
\* the body of "for line in f" for one role file
RECURSIVE ReadLines(_, _, _, _)
ReadLines(lines, role, date_obj, st) ==
    IF lines = <<>> THEN st
    ELSE LET ip == Strip(Head(lines))
             nx == IF ip # Blank
                   THEN [nodes |-> [st.nodes EXCEPT ![role] = @ \cup {ip}],
                         first |-> IF ip \notin Keys(st.first)
                                   THEN Append(st.first, <<ip, date_obj>>)
                                   ELSE st.first,
                         last  |-> DictSet(st.last, ip, date_obj)]
                   ELSE st
         IN  ReadLines(Tail(lines), role, date_obj, nx)

\* "if role_file.exists(): with open(role_file) as f: ..."
ReadRoleFile(file, role, date_obj, st) ==
    IF ~file.exists THEN st ELSE ReadLines(file.lines, role, date_obj, st)

\* lines 46-82 for one valid date directory holding c
ReadDir(c, date_obj, first, last) ==
    LET st0 == [nodes |-> [r \in RoleSet |-> {}], first |-> first, last |-> last]
        st1 == ReadRoleFile(c["relay"], "relay", date_obj, st0)
        st2 == ReadRoleFile(c["exit"], "exit", date_obj, st1)
    IN  ReadRoleFile(c["guard"], "guard", date_obj, st2)

(***************************************************************************)
(* Rationals <<numerator, denominator>> in lowest terms, for the averages  *)
(* and the churn rate (the code's floats, without their rounding).         *)
(***************************************************************************)
Abs(n) == IF n < 0 THEN -n ELSE n

RECURSIVE GCD(_, _)
GCD(a, b) == IF b = 0 THEN a ELSE GCD(b, a % b)

Rat(n, d) == LET g == GCD(Abs(n), d) IN <<n \div g, d \div g>>

Zero == <<0, 1>>

RatAdd(a, b) == Rat(a[1] * b[2] + b[1] * a[2], a[2] * b[2])

RECURSIVE Sum(_)
Sum(s) == IF s = <<>> THEN 0 ELSE Head(s) + Sum(Tail(s))

RECURSIVE RatSum(_)
RatSum(s) == IF s = <<>> THEN Zero ELSE RatAdd(Head(s), RatSum(Tail(s)))

\* min(s) and max(s) of a non-empty list
SeqMin(s) == CHOOSE x \in {s[i] : i \in 1..Len(s)} : \A i \in 1..Len(s) : x <= s[i]

SeqMax(s) == CHOOSE x \in {s[i] : i \in 1..Len(s)} : \A i \in 1..Len(s) : x >= s[i]

(***************************************************************************)
(* collect_churn_data, lines 84-91: lifespans.                             *)
(***************************************************************************)
\* (last_date - first_date).days
LifespanDays(first_date, last_date) == last_date - first_date

Lifespans(first, last) ==
    [i \in 1..Len(first) |-> LifespanDays(first[i][2], last[first[i][1]])]

\* sum(lifespans) / len(lifespans) if lifespans else 0
AvgLifetime(ls) == IF ls # <<>> THEN Rat(Sum(ls), Len(ls)) ELSE Zero

(***************************************************************************)
(* collect_churn_data, lines 98-126: the daily series.                     *)
(***************************************************************************)
\* the relay set alone
CurrentNodes_RelayOnly(dn, date) == dn[date]["relay"]

\* the union of the three role sets of one date
CurrentNodes(dn, date) == UNION {dn[date][r] : r \in RoleSet}

NewNodes(current_nodes, prev_nodes) == Cardinality(current_nodes \ prev_nodes)

\* a count of the nodes that appeared, taken as the departed ones
DepartedNodes_Appeared(current_nodes, prev_nodes) == Cardinality(current_nodes \ prev_nodes)

DepartedNodes(current_nodes, prev_nodes) == Cardinality(prev_nodes \ current_nodes)

\* (departed_nodes / len(prev_nodes) * 100) if len(prev_nodes) > 0 else 0
ChurnRate(departed_nodes, prev_nodes) ==
    IF Cardinality(prev_nodes) > 0
    THEN Rat(departed_nodes * 100, Cardinality(prev_nodes))
    ELSE Zero

\* a first entry that counts no node as new
FirstDay_NoNew(current_nodes) ==
    [new |-> 0, departed |-> 0, churn |-> Zero]

\* the entry of the first date (i == 0 in the code, index 1 here)
FirstDay(current_nodes) ==
    [new |-> Cardinality(current_nodes), departed |-> 0, churn |-> Zero]

\* every entry compared with the first date
PrevDate_First(dates, i) == dates[1]

\* the date the entry of index i is compared with
PrevDate(dates, i) == dates[i - 1]

\* one iteration of "for i, date in enumerate(sorted_dates)"
DayEntry(dn, dates, i) ==
    LET current_nodes == CurrentNodes(dn, dates[i])
    IN  IF i = 1 THEN FirstDay(current_nodes)
        ELSE LET prev_nodes == CurrentNodes(dn, PrevDate(dates, i))
                 departed_nodes == DepartedNodes(current_nodes, prev_nodes)
             IN  [new |-> NewNodes(current_nodes, prev_nodes),
                  departed |-> departed_nodes,
                  churn |-> ChurnRate(departed_nodes, prev_nodes)]

(***************************************************************************)
(* generate_churn_chart, lines 148-198: the annotation box.                *)
(***************************************************************************)
\* a slice that keeps the first day
DropFirst_KeepAll(s) == s

\* s[1:]
DropFirst(s) == IF s = <<>> THEN <<>> ELSE Tail(s)

\* sum(s) / len(s) of a list of integers
Mean(s) == Rat(Sum(s), Len(s))

\* sum(s) / len(s) of a list of rationals
RatMean(s) == LET t == RatSum(s) IN Rat(t[1], t[2] * Len(s))

\* sum(s) / len(s) if s else 0
GuardedMean(s) == IF s # <<>> THEN Mean(s) ELSE Zero

GuardedRatMean(s) == IF s # <<>> THEN RatMean(s) ELSE Zero

(***************************************************************************)
(* State.                                                                  *)
(***************************************************************************)
VARIABLES
    script,                 \* the script this run executes
    pc,                     \* its position
    exc,                    \* the exception that ended the run, or "none"
    exit_code,              \* the process exit status, -1 while running
    reported,               \* failures reported on standard output
    written,                \* output files written
    fixture,                \* the history archive, when fixed in advance
    date_dirs,              \* sorted(glob(...)): the directories not yet iterated
    n_dirs,                 \* how many directories the glob discovered
    n_valid,                \* how many discovered directory names are dates
    listed,                 \* per identifier, the dates of the valid directories listing it
    date_nodes,
    node_first_seen,
    node_last_seen,
    lifespans,
    avg_lifetime,
    report,                 \* the statistics printed by collect_churn_data
    sorted_dates,
    new_nodes_per_day,
    departed_nodes_per_day,
    churn_rate_per_day,
    data,                   \* what collect_churn_data returned
    chart,                  \* the averages in the chart's annotation box
    net_data,               \* network_chart.py: data of collect_data
    env,                    \* what geolocation_map.py and combined_chart.py find on disk
    world_map,              \* geolocation_map.py: WORLD_MAP
    opened_images,          \* combined_chart.py: the images opened
    success                 \* combined_chart.py: what combine_charts returned

runVars == <<script, pc, exc, exit_code, reported, written>>

archiveVars == <<fixture, date_dirs, n_dirs, n_valid, listed>>

scanVars == <<date_nodes, node_first_seen, node_last_seen>>

seriesVars == <<sorted_dates, new_nodes_per_day, departed_nodes_per_day, churn_rate_per_day>>

churnVars == <<scanVars, lifespans, avg_lifetime, report, seriesVars, data, chart>>

scriptVars == <<net_data, env, world_map, opened_images, success>>

vars == <<runVars, archiveVars, churnVars, scriptVars>>

AllIds == Ids \cup FixtureIds

NoFixture == [fixed |-> FALSE, dirs |-> EmptyDict]

\* the archives the glob may find when none is fixed in advance
Archives == {S \in SUBSET Paths : Cardinality(S) <= MaxDirs}

InitRun ==
    /\ pc = "start"
    /\ exc = "none"
    /\ exit_code = -1
    /\ reported = {}
    /\ written = {}
    /\ date_dirs = <<>>
    /\ n_dirs = 0
    /\ n_valid = 0
    /\ listed = [ip \in AllIds |-> {}]
    /\ date_nodes = EmptyDict
    /\ node_first_seen = <<>>
    /\ node_last_seen = EmptyDict
    /\ lifespans = <<>>
    /\ avg_lifetime = Zero
    /\ report = EmptyDict
    /\ sorted_dates = <<>>
    /\ new_nodes_per_day = <<>>
    /\ departed_nodes_per_day = <<>>
    /\ churn_rate_per_day = <<>>
    /\ data = EmptyDict
    /\ chart = EmptyDict
    /\ net_data = EmptyDict
    /\ world_map = "unset"
    /\ opened_images = {}
    /\ success = FALSE

Scripts == {"churn_rate", "network_chart", "geolocation_map", "combined_chart"}

NoEnv == EmptyDict

\* geolocation_map.py: whether the Natural Earth zip is cached, whether its
\* download succeeds, whether geopandas reads the zip, whether it reads the
\* shapefile named inside the zip, and the state of active/geo-location.json
GeoEnvs ==
    [world_file : BOOLEAN, download_ok : BOOLEAN, zip_readable : BOOLEAN,
     shp_readable : BOOLEAN, geo_json : {"missing", "corrupt", "no_columns", "ok"}]

\* combined_chart.py: which of the three input images exist, and whether PIL
\* can open them
CombinedEnvs ==
    [top_left : BOOLEAN, top_right : BOOLEAN, bottom : BOOLEAN, readable : BOOLEAN]

Init ==
    /\ script \in Scripts
    /\ env \in (IF script = "geolocation_map" THEN GeoEnvs
                ELSE IF script = "combined_chart" THEN CombinedEnvs
                ELSE {NoEnv})
    /\ fixture = NoFixture
    /\ InitRun

(***************************************************************************)
(* Archives fixed in advance: three date directories D1 < D2 < D3 under    *)
(* one grouping, each holding exactly one role file that lists up to       *)
(* MaxFixtureLines distinct identifiers; the other two files are missing.  *)
(***************************************************************************)
RECURSIVE IdLines(_)
IdLines(ids) ==
    IF ids = {} THEN <<>>
    ELSE LET ip == CHOOSE x \in ids : TRUE
         IN  <<[text |-> ip, eol |-> "\n"]>> \o IdLines(ids \ {ip})

FixtureFiles ==
    {[exists |-> TRUE, lines |-> IdLines(ids)] :
        ids \in {x \in SUBSET FixtureIds : Cardinality(x) <= MaxFixtureLines}}

FixtureDirs ==
    {[r \in RoleSet |-> IF r = q THEN f ELSE Missing] : q \in RoleSet, f \in FixtureFiles}

FixturePaths == {<<2024, 1, n>> : n \in {<<2024, 1, 1>>, <<2024, 1, 10>>, <<2024, 2, 29>>}}

FixedArchives == {[fixed |-> TRUE, dirs |-> d] : d \in [FixturePaths -> FixtureDirs]}

InitFixture ==
    /\ script = "churn_rate"
    /\ env = NoEnv
    /\ fixture \in FixedArchives
    /\ InitRun

\* an uncaught exception ends the process with a traceback and status 1
Raise(e) ==
    /\ pc' = "raised"
    /\ exc' = e
    /\ exit_code' = 1

(***************************************************************************)
(* churn_rate.py                                                           *)
(***************************************************************************)
\* line 37: date_dirs = sorted(HISTORY_DIR.glob("*/*/????-??-??"))
Discover ==
    /\ script \in {"churn_rate", "network_chart"}
    /\ pc = "start"
    /\ \E S \in (IF fixture.fixed THEN {DOMAIN fixture.dirs} ELSE Archives) :
        /\ date_dirs' = SortPaths(S)
        /\ n_dirs' = Cardinality(S)
        /\ n_valid' = Cardinality({p \in S : ValidDate(Name(p))})
    /\ pc' = "scan"
    /\ UNCHANGED <<script, exc, exit_code, reported, written>>
    /\ UNCHANGED <<fixture, listed, churnVars, scriptVars>>

\* what the role files of a directory hold when the scan reaches it
Contents(date_dir) ==
    IF fixture.fixed THEN {fixture.dirs[date_dir]} ELSE DirContents

\* lines 39-82: one iteration of "for date_dir in date_dirs"
ScanDir ==
    /\ script = "churn_rate"
    /\ pc = "scan"
    /\ date_dirs # <<>>
    /\ LET date_dir == Head(date_dirs)
           date_str == Name(date_dir)
       IN  IF ~ValidDate(date_str)
           THEN UNCHANGED <<scanVars, listed>>
           ELSE \E c \in Contents(date_dir) :
                    LET date_obj == ParseDate(date_str)
                        st == ReadDir(c, date_obj, node_first_seen, node_last_seen)
                        ips == UNION {st.nodes[r] : r \in RoleSet}
                    IN  /\ date_nodes' = DictSet(date_nodes, date_obj, st.nodes)
                        /\ node_first_seen' = st.first
                        /\ node_last_seen' = st.last
                        /\ listed' = [ip \in AllIds |->
                                        IF ip \in ips THEN listed[ip] \cup {date_obj}
                                        ELSE listed[ip]]
    /\ date_dirs' = Tail(date_dirs)
    /\ UNCHANGED <<runVars, fixture, n_dirs, n_valid>>
    /\ UNCHANGED <<lifespans, avg_lifetime, report, seriesVars, data, chart, scriptVars>>

\* lines 84-96: lifespans, their average, and the printed lifetime statistics;
\* min() and max() of an empty list raise ValueError
ReportLifetimes ==
    /\ script = "churn_rate"
    /\ pc = "scan"
    /\ date_dirs = <<>>
    /\ LET ls == Lifespans(node_first_seen, node_last_seen)
           printed == [total |-> Len(node_first_seen), avg_lifetime |-> AvgLifetime(ls)]
       IN  /\ lifespans' = ls
           /\ avg_lifetime' = AvgLifetime(ls)
           /\ IF ls = <<>>
              THEN /\ report' = printed
                   /\ Raise("ValueError")
              ELSE /\ report' = DictSet(DictSet(printed, "min_lifetime", SeqMin(ls)),
                                        "max_lifetime", SeqMax(ls))
                   /\ pc' = "churn"
                   /\ UNCHANGED <<exc, exit_code>>
    /\ UNCHANGED <<script, reported, written>>
    /\ UNCHANGED <<fixture, date_dirs, n_dirs, n_valid, listed>>
    /\ UNCHANGED <<scanVars, seriesVars, data, chart, scriptVars>>

\* lines 99-126: the daily series
DailyChurn ==
    /\ script = "churn_rate"
    /\ pc = "churn"
    /\ LET dates == SortDates(DOMAIN date_nodes)
           entry == [i \in 1..Len(dates) |-> DayEntry(date_nodes, dates, i)]
       IN  /\ sorted_dates' = dates
           /\ new_nodes_per_day' = [i \in 1..Len(dates) |-> entry[i].new]
           /\ departed_nodes_per_day' = [i \in 1..Len(dates) |-> entry[i].departed]
           /\ churn_rate_per_day' = [i \in 1..Len(dates) |-> entry[i].churn]
    /\ pc' = "report"
    /\ UNCHANGED <<script, exc, exit_code, reported, written>>
    /\ UNCHANGED <<archiveVars, scanVars, lifespans, avg_lifetime, report, data, chart, scriptVars>>

\* lines 128-141: the printed daily averages (a division by the length of the
\* series) and the returned record
ReportChurn ==
    /\ script = "churn_rate"
    /\ pc = "report"
    /\ IF Len(new_nodes_per_day) = 0
       THEN /\ Raise("ZeroDivisionError")
            /\ UNCHANGED <<report, data>>
       ELSE /\ report' = [k \in (DOMAIN report) \cup {"avg_new", "avg_departed", "avg_churn"} |->
                            IF k = "avg_new" THEN Mean(new_nodes_per_day)
                            ELSE IF k = "avg_departed" THEN Mean(departed_nodes_per_day)
                            ELSE IF k = "avg_churn" THEN RatMean(churn_rate_per_day)
                            ELSE report[k]]
            /\ data' = [dates |-> sorted_dates,
                        new_nodes |-> new_nodes_per_day,
                        departed_nodes |-> departed_nodes_per_day,
                        churn_rate |-> churn_rate_per_day,
                        avg_lifetime |-> avg_lifetime,
                        total_nodes |-> Len(node_first_seen),
                        lifespans |-> lifespans]
            /\ pc' = "chart"
            /\ UNCHANGED <<exc, exit_code>>
    /\ UNCHANGED <<script, reported, written>>
    /\ UNCHANGED <<archiveVars, scanVars, lifespans, avg_lifetime, seriesVars, chart, scriptVars>>

\* lines 143-217: the chart, drawn without the first day, and its annotation box
GenerateChurnChart ==
    /\ script = "churn_rate"
    /\ pc = "chart"
    /\ LET new_nodes == DropFirst(data.new_nodes)
           departed_nodes == DropFirst(data.departed_nodes)
           churn_rate == DropFirst(data.churn_rate)
       IN  chart' = [avg_new |-> GuardedMean(new_nodes),
                     avg_departed |-> GuardedMean(departed_nodes),
                     avg_churn |-> GuardedRatMean(churn_rate),
                     total_nodes |-> data.total_nodes,
                     avg_lifetime |-> data.avg_lifetime]
    /\ written' = written \cup {"churn-rate.png"}
    /\ pc' = "exit"
    /\ exit_code' = 0
    /\ UNCHANGED <<script, exc, reported>>
    /\ UNCHANGED <<archiveVars, scanVars, lifespans, avg_lifetime, report, seriesVars, data, scriptVars>>

ChurnNext ==
    \/ Discover
    \/ ScanDir
    \/ ReportLifetimes
    \/ DailyChurn
    \/ ReportChurn
    \/ GenerateChurnChart

(***************************************************************************)
(* network_chart.py                                                        *)
(***************************************************************************)
\* count_nodes_in_file: len(f.readlines()), 0 on FileNotFoundError
count_nodes_in_file(file) == IF file.exists THEN Len(file.lines) ELSE 0

\* collect_data, lines 39-62: one iteration of "for date_dir in date_dirs"
CollectDataDir ==
    /\ script = "network_chart"
    /\ pc = "scan"
    /\ date_dirs # <<>>
    /\ LET date_dir == Head(date_dirs)
           date_str == Name(date_dir)
       IN  IF ~ValidDate(date_str)
           THEN UNCHANGED net_data
           ELSE \E c \in Contents(date_dir) :
                    LET date_obj == ParseDate(date_str)
                        relay_count == count_nodes_in_file(c["relay"])
                        exit_count == count_nodes_in_file(c["exit"])
                        guard_count == count_nodes_in_file(c["guard"])
                    IN  net_data' = DictSet(net_data, date_obj,
                                            [relay |-> relay_count,
                                             exit |-> exit_count,
                                             guard |-> guard_count,
                                             all |-> relay_count + exit_count + guard_count])
    /\ date_dirs' = Tail(date_dirs)
    /\ UNCHANGED <<runVars, fixture, n_dirs, n_valid, listed, churnVars>>
    /\ UNCHANGED <<env, world_map, opened_images, success>>

\* generate_chart, lines 66-117, and the end of main: without data it prints
\* "No data found!" and returns
GenerateChart ==
    /\ script = "network_chart"
    /\ pc = "scan"
    /\ date_dirs = <<>>
    /\ IF DOMAIN net_data = {}
       THEN /\ reported' = reported \cup {"No data found!"}
            /\ UNCHANGED written
       ELSE /\ written' = written \cup {"network-chart.png"}
            /\ UNCHANGED reported
    /\ pc' = "exit"
    /\ exit_code' = 0
    /\ UNCHANGED <<script, exc, archiveVars, churnVars, scriptVars>>

(***************************************************************************)
(* geolocation_map.py                                                      *)
(***************************************************************************)
\* download_natural_earth_data, lines 30-36: whether urlretrieve raises
DownloadRaises(e) == ~e.world_file /\ ~e.download_ok

\* load_world_map, lines 39-53: whether it raises; a failure to read the zip
\* is caught and the shapefile inside the zip is read instead
LoadWorldMapRaises(e) ==
    \/ DownloadRaises(e)
    \/ ~e.zip_readable /\ ~e.shp_readable

\* main, lines 126-132: the failure is caught, printed, and WORLD_MAP = None
LoadWorldMap ==
    /\ script = "geolocation_map"
    /\ pc = "start"
    /\ IF LoadWorldMapRaises(env)
       THEN /\ reported' = reported \cup {"Error loading world map data"}
            /\ world_map' = "None"
       ELSE /\ world_map' = "loaded"
            /\ UNCHANGED reported
    /\ pc' = "generate"
    /\ UNCHANGED <<script, exc, exit_code, written, archiveVars, churnVars>>
    /\ UNCHANGED <<net_data, env, opened_images, success>>

\* generate_map, lines 55-123: the exception it raises, "none" when it saves
\* the map
GenerateMapError(e) ==
    IF e.geo_json = "missing" THEN "FileNotFoundError"
    ELSE IF e.geo_json = "corrupt" THEN "JSONDecodeError"
    ELSE IF e.geo_json = "no_columns" THEN "KeyError"
    ELSE "none"

\* main, lines 134-135
GenerateMap ==
    /\ script = "geolocation_map"
    /\ pc = "generate"
    /\ IF GenerateMapError(env) # "none"
       THEN /\ Raise(GenerateMapError(env))
            /\ UNCHANGED written
       ELSE /\ written' = written \cup {"geolocation-map.png", "history/geolocation-map.png"}
            /\ pc' = "exit"
            /\ exit_code' = 0
            /\ UNCHANGED exc
    /\ UNCHANGED <<script, reported, archiveVars, churnVars, scriptVars>>

(***************************************************************************)
(* combined_chart.py                                                       *)
(***************************************************************************)
\* an existence check of the top left image alone
MissingImage_TopLeftOnly(e) ==
    IF ~e.top_left THEN "Error: Top left image not found" ELSE ""

\* lines 24-34: the message of the first missing input image, "" when all exist
MissingImage(e) ==
    IF ~e.top_left THEN "Error: Top left image not found"
    ELSE IF ~e.top_right THEN "Error: Top right image not found"
    ELSE IF ~e.bottom THEN "Error: Bottom image not found"
    ELSE ""

\* combine_charts, lines 20-97
CombineCharts ==
    /\ script = "combined_chart"
    /\ pc = "start"
    /\ IF MissingImage(env) # ""
       THEN /\ reported' = reported \cup {MissingImage(env)}
            /\ success' = FALSE
            /\ pc' = "returned"
            /\ UNCHANGED <<opened_images, written, exc, exit_code>>
       ELSE IF ~env.readable
       THEN /\ opened_images' = {"network-chart.png"}
            /\ Raise("UnidentifiedImageError")
            /\ UNCHANGED <<reported, success, written>>
       ELSE /\ opened_images' =
                    {"network-chart.png", "node-distribution-pie.png", "geolocation-map.png"}
            /\ written' = written \cup {"combined-analytics.png"}
            /\ success' = TRUE
            /\ pc' = "returned"
            /\ UNCHANGED <<reported, exc, exit_code>>
    /\ UNCHANGED <<script, archiveVars, churnVars, net_data, env, world_map>>

\* an exit status that ignores the result
ExitStatus_AlwaysZero(ok) == 0

\* main, lines 101-104: "if not success: exit(1)"
ExitStatus(ok) == IF ~ok THEN 1 ELSE 0

CombinedExit ==
    /\ script = "combined_chart"
    /\ pc = "returned"
    /\ exit_code' = ExitStatus(success)
    /\ pc' = "exit"
    /\ UNCHANGED <<script, exc, reported, written, archiveVars, churnVars, scriptVars>>

Next ==
    \/ ChurnNext
    \/ CollectDataDir
    \/ GenerateChart
    \/ LoadWorldMap
    \/ GenerateMap
    \/ CombineCharts
    \/ CombinedExit

Spec == Init /\ [][Next]_vars

SpecFixture == InitFixture /\ [][ChurnNext]_vars

(***************************************************************************)
(* Properties.                                                             *)
(***************************************************************************)
\* the daily series have been computed
SeriesComputed == script = "churn_rate" /\ pc \in {"report", "chart", "exit"}

\* collect_churn_data has returned
Returned == script = "churn_rate" /\ pc \in {"chart", "exit"}

\* every date directory has been processed
Scanned == script = "churn_rate" /\ pc # "start" /\ date_dirs = <<>>

\* the date of the i-th snapshot in date order
SnapshotDate(i) ==
    CHOOSE d \in DOMAIN date_nodes : Cardinality({e \in DOMAIN date_nodes : e < d}) = i - 1

\* the identifiers of the i-th snapshot in date order, whatever their role
Snapshot(i) ==
    LET roles == date_nodes[SnapshotDate(i)]
    IN  roles["relay"] \cup roles["exit"] \cup roles["guard"]

MinOf(S) == CHOOSE x \in S : \A y \in S : x <= y

MaxOf(S) == CHOOSE x \in S : \A y \in S : x >= y

\* C1: once the series are computed, each of new_nodes, departed_nodes and
\* churn_rate has as many entries as there are discovered date directories
\* whose name is a calendar date.
C1_LengthIsValidDirs ==
    SeriesComputed =>
        /\ Len(new_nodes_per_day) = n_valid
        /\ Len(departed_nodes_per_day) = n_valid
        /\ Len(churn_rate_per_day) = n_valid

\* C2: for every snapshot index i >= 1 in date order (i >= 2 here), with
\* previous and current the unions of the role sets of snapshots i-1 and i,
\* new = |current \ previous|, departed = |previous \ current|, and the churn
\* rate is departed / |previous| * 100, or 0 when previous is empty.
C2_DailyDeltas ==
    SeriesComputed =>
        \A i \in 2..Cardinality(DOMAIN date_nodes) :
            LET previous == Snapshot(i - 1)
                current == Snapshot(i)
            IN  /\ new_nodes_per_day[i] = Cardinality(current \ previous)
                /\ departed_nodes_per_day[i] = Cardinality(previous \ current)
                /\ IF previous # {}
                   THEN churn_rate_per_day[i][1] * Cardinality(previous)
                            = Cardinality(previous \ current) * 100 * churn_rate_per_day[i][2]
                   ELSE churn_rate_per_day[i][1] = 0

\* C2 witness: three snapshots {}, {x, y}, {y, z}: the second has new 2,
\* departed 0, churn 0 (empty previous); the third new 1, departed 1, churn 50.
C2_Witness ==
    /\ SeriesComputed
    /\ Len(sorted_dates) = 3
    /\ Snapshot(1) = {}
    /\ Cardinality(Snapshot(2)) = 2
    /\ new_nodes_per_day[2] = 2 /\ departed_nodes_per_day[2] = 0
    /\ churn_rate_per_day[2] = <<0, 1>>
    /\ new_nodes_per_day[3] = 1 /\ departed_nodes_per_day[3] = 1
    /\ churn_rate_per_day[3] = <<50, 1>>

\* C3: the entry of the earliest snapshot has new = the size of the union of
\* its three role sets, departed = 0 and churn rate = 0.
C3_FirstDay ==
    (SeriesComputed /\ DOMAIN date_nodes # {}) =>
        /\ new_nodes_per_day[1] = Cardinality(Snapshot(1))
        /\ departed_nodes_per_day[1] = 0
        /\ churn_rate_per_day[1] = <<0, 1>>

\* C3 witness: a finished run whose earliest snapshot holds an identifier and
\* is followed by a second snapshot.
C3_Witness ==
    /\ SeriesComputed
    /\ Len(sorted_dates) = 2
    /\ Snapshot(1) # {}
    /\ new_nodes_per_day[1] = 1

\* C4: once every date directory has been processed, node_first_seen[ip] is
\* the earliest and node_last_seen[ip] the latest date of the valid date
\* directories listing ip, for every identifier read.
C4_FirstLastAreMinMax ==
    Scanned =>
        \A i \in 1..Len(node_first_seen) :
            LET ip == node_first_seen[i][1]
            IN  /\ node_first_seen[i][2] = MinOf(listed[ip])
                /\ node_last_seen[ip] = MaxOf(listed[ip])

\* C5: the lifespans list has one entry per distinct identifier; the entry is
\* the last-seen minus the first-seen date in days; it is 0, with first-seen =
\* last-seen = the snapshot's date, for an identifier of exactly one snapshot
\* date, and 9 for an identifier listed on 2024-01-01 and 2024-01-10.
C5_Lifetimes ==
    (script = "churn_rate" /\ pc \in {"churn", "report", "chart", "exit"}) =>
        /\ Len(lifespans) = Cardinality({ip \in AllIds : listed[ip] # {}})
        /\ \A i \in 1..Len(lifespans) :
            LET ip == node_first_seen[i][1]
            IN  /\ lifespans[i] = node_last_seen[ip] - node_first_seen[i][2]
                /\ Cardinality(listed[ip]) = 1 =>
                        /\ lifespans[i] = 0
                        /\ listed[ip] = {node_first_seen[i][2]}
                        /\ node_last_seen[ip] = node_first_seen[i][2]
                /\ ({738886, 738895} \subseteq listed[ip]
                        /\ \A d \in listed[ip] : 738886 <= d /\ d <= 738895)
                    => lifespans[i] = 9

\* C6: on an archive without any identifier the run raises nothing.
C6_EmptyArchiveCompletes ==
    (script = "churn_rate" /\ node_first_seen = <<>>) => exc = "none"

\* a directory name that is no calendar date: a month above 12 or a day above 31
NotADate(name) == name[2] > 12 \/ name[3] > 31

\* C7: the loop iteration for a date directory whose name is no calendar date
\* raises nothing and changes nothing but the iteration itself: no snapshot is
\* added, no identifier recorded, the first-seen and last-seen maps are kept.
C7_InvalidDirSkipped ==
    /\ [][(script = "churn_rate" /\ pc = "scan" /\ date_dirs # <<>>
            /\ NotADate(Name(Head(date_dirs))))
        => /\ date_dirs' = Tail(date_dirs)
           /\ pc' = "scan" /\ exc' = "none"
           /\ UNCHANGED <<date_nodes, node_first_seen, node_last_seen, listed>>]_vars
    /\ [][(script = "network_chart" /\ pc = "scan" /\ date_dirs # <<>>
            /\ NotADate(Name(Head(date_dirs))))
        => /\ date_dirs' = Tail(date_dirs)
           /\ pc' = "scan" /\ exc' = "none"
           /\ UNCHANGED net_data]_vars

\* C7 witness: a completed run over two discovered directories of which one
\* is no date: one snapshot.
C7_Witness ==
    /\ script = "churn_rate" /\ pc = "exit"
    /\ n_dirs = 2 /\ n_valid = 1
    /\ Len(data.dates) = 1

\* the archive of C8: D1 holds only the relay file, D2 only the exit file, D3
\* only the guard file, each listing one identifier, the three distinct
FixtureOfC8 ==
    /\ fixture.fixed
    /\ LET d1 == fixture.dirs[<<2024, 1, <<2024, 1, 1>>>>]
           d2 == fixture.dirs[<<2024, 1, <<2024, 1, 10>>>>]
           d3 == fixture.dirs[<<2024, 1, <<2024, 2, 29>>>>]
       IN  /\ d1["relay"].exists /\ d2["exit"].exists /\ d3["guard"].exists
           /\ Len(d1["relay"].lines) = 1
           /\ Len(d2["exit"].lines) = 1
           /\ Len(d3["guard"].lines) = 1
           /\ Cardinality({d1["relay"].lines[1], d2["exit"].lines[1],
                           d3["guard"].lines[1]}) = 3

\* C8: a role file missing from a valid date directory gives the empty set for
\* that role and date and the date still has its snapshot; a run over
\* directories that all miss role files, and list an identifier, raises nothing; on
\* the archive of C8 there are 3 identifiers, every lifetime is 0, and the
\* second date has new = 1 and departed = 1.
C8_MissingFileIsEmpty ==
    /\ (fixture.fixed /\ pc # "start") =>
        /\ (\E p \in DOMAIN fixture.dirs : \E r \in RoleSet :
                fixture.dirs[p][r].lines # <<>>) => exc = "none"
        /\ \A p \in DOMAIN fixture.dirs :
            (\A k \in 1..Len(date_dirs) : date_dirs[k] # p) =>
                /\ ParseDate(Name(p)) \in DOMAIN date_nodes
                /\ \A r \in RoleSet :
                    ~fixture.dirs[p][r].exists => date_nodes[ParseDate(Name(p))][r] = {}
    /\ (FixtureOfC8 /\ Returned) =>
        /\ data.total_nodes = 3
        /\ Len(data.lifespans) = 3
        /\ \A i \in 1..Len(data.lifespans) : data.lifespans[i] = 0
        /\ data.new_nodes[2] = 1
        /\ data.departed_nodes[2] = 1

\* C8 witness: the run over the archive of C8 has returned.
C8_Witness == FixtureOfC8 /\ Returned /\ pc = "exit"

\* C10: the returned new, departed and churn-rate sequences are as long as the
\* returned dates, the dates are strictly increasing, and entry i belongs to
\* dates[i]: new[i] - departed[i] is the growth from the snapshot of
\* dates[i-1] (nothing, for the first) to the snapshot of dates[i].
C10_Aligned ==
    Returned =>
        LET n == Len(data.dates)
            nodes(i) == date_nodes[data.dates[i]]["relay"]
                            \cup date_nodes[data.dates[i]]["exit"]
                            \cup date_nodes[data.dates[i]]["guard"]
        IN  /\ Len(data.new_nodes) = n
            /\ Len(data.departed_nodes) = n
            /\ Len(data.churn_rate) = n
            /\ \A i \in 1..(n - 1) : data.dates[i] < data.dates[i + 1]
            /\ \A i \in 1..n :
                /\ data.dates[i] \in DOMAIN date_nodes
                /\ data.new_nodes[i] - data.departed_nodes[i]
                    = Cardinality(nodes(i)) - (IF i = 1 THEN 0 ELSE Cardinality(nodes(i - 1)))
                /\ (data.departed_nodes[i] = 0) = (data.churn_rate[i][1] = 0)

\* C10 witness: a returned record of two dates.
C10_Witness == Returned /\ Len(data.dates) = 2 /\ Len(data.new_nodes) = 2

IsMeanOf(avg, s) == s # <<>> /\ avg[2] > 0 /\ avg[1] * Len(s) = Sum(s) * avg[2]

\* avg is the quotient sum(s) / len(s) of a non-empty list of rationals
IsRatMeanOf(avg, s) ==
    s # <<>> /\ avg[2] > 0 /\ avg[1] * RatSum(s)[2] * Len(s) = RatSum(s)[1] * avg[2]

\* C11: once churn_rate.py has drawn its chart, the three averages printed by
\* collect_churn_data are those of the full series, day 0 included; the three
\* averages of the chart's annotation box are those of the series without its
\* first entry, and are 0 when the series has one entry; a run whose series
\* has one entry ends without an exception.
C11_ReportAndChartAverages ==
    /\ (script = "churn_rate" /\ pc = "exit" /\ exc = "none") =>
            /\ IsMeanOf(report.avg_new, data.new_nodes)
            /\ IsMeanOf(report.avg_departed, data.departed_nodes)
            /\ IsRatMeanOf(report.avg_churn, data.churn_rate)
            /\ IF Len(data.new_nodes) = 1
               THEN /\ chart.avg_new = <<0, 1>>
                    /\ chart.avg_departed = <<0, 1>>
                    /\ chart.avg_churn = <<0, 1>>
               ELSE /\ IsMeanOf(chart.avg_new, Tail(data.new_nodes))
                    /\ IsMeanOf(chart.avg_departed, Tail(data.departed_nodes))
                    /\ IsRatMeanOf(chart.avg_churn, Tail(data.churn_rate))
    /\ (script = "churn_rate" /\ Len(new_nodes_per_day) = 1) =>
            /\ exc = "none"
            /\ pc = "exit" => written = {"churn-rate.png"}

\* a one-day archive listing an identifier: the report's average of new nodes
\* is 1, the chart's is 0
C11_Witness ==
    /\ script = "churn_rate" /\ pc = "exit" /\ exc = "none"
    /\ Len(data.new_nodes) = 1
    /\ report.avg_new = <<1, 1>>
    /\ chart.avg_new = <<0, 1>>


\* the three input images of combined_chart.py exist
AllImagesExist == env.top_left /\ env.top_right /\ env.bottom

\* C12: when one of the three input images does not exist, combine_charts
\* returns False without opening an image or writing the combined file, and
\* the process exits with status 1; the combined file is written, and True
\* returned, only when the three images exist.
C12_MissingInputFails ==
    script = "combined_chart" =>
        /\ (pc # "start" /\ ~AllImagesExist) =>
                /\ pc \in {"returned", "exit"}
                /\ success = FALSE
                /\ opened_images = {}
                /\ written = {}
                /\ exc = "none"
        /\ (pc = "exit" /\ ~AllImagesExist) => exit_code = 1
        /\ (success \/ written # {}) =>
                /\ AllImagesExist
                /\ success
                /\ written = {"combined-analytics.png"}
                /\ pc = "exit" => exit_code = 0

\* only the geolocation map is missing, and the process has exited with 1
C12_Witness ==
    /\ script = "combined_chart"
    /\ pc = "exit"
    /\ env.top_left /\ env.top_right /\ ~env.bottom
    /\ success = FALSE
    /\ exit_code = 1
    /\ written = {}


\* the rational q lies between 0 and 100 inclusive
IsPercentage(q) == q[2] > 0 /\ q[1] >= 0 /\ q[1] <= 100 * q[2]

\* C13: once collect_churn_data has returned, the sum of new_nodes minus the
\* sum of departed_nodes is the number of identifiers of the latest snapshot
\* (the union of its three role sets); from the second entry on, departed is
\* at most the size of the previous snapshot; every churn rate lies between 0
\* and 100 inclusive.
C13_SumIdentityAndRange ==
    Returned =>
        LET n == Len(data.new_nodes)
        IN  /\ n >= 1
            /\ n = Cardinality(DOMAIN date_nodes)
            /\ Sum(data.new_nodes) - Sum(data.departed_nodes) = Cardinality(Snapshot(n))
            /\ \A i \in 2..n : data.departed_nodes[i] <= Cardinality(Snapshot(i - 1))
            /\ \A i \in 1..n : data.departed_nodes[i] >= 0
            /\ \A i \in 1..n : IsPercentage(data.churn_rate[i])

\* a day on which part of the previous snapshot departed: a churn rate strictly
\* between 0 and 100, with a non-empty latest snapshot
C13_Witness ==
    /\ Returned
    /\ \E i \in 2..Len(data.churn_rate) :
            /\ data.churn_rate[i][1] > 0
            /\ data.churn_rate[i][1] < 100 * data.churn_rate[i][2]
    /\ Sum(data.departed_nodes) > 0
    /\ Sum(data.new_nodes) - Sum(data.departed_nodes) > 0

====
